---- MODULE Spec2Model ----
(* Bank statement parsing: the generic header-mapping pipeline of            *)
(* exp_parser.py (map_headers, extract_transactions, extract_metadata,       *)
(* process_pdf) and the bank parser registry of app.py (BankParser,          *)
(* generate_response, main).                                                  *)
(*                                                                            *)
(* Text is modelled as a sequence of one-character strings, so that strip,    *)
(* upper, lower, substring tests and character filters are computed the way   *)
(* the Python code computes them.                                             *)
EXTENDS Integers, Sequences, FiniteSets, TLC

VARIABLES
    pc,                \* position of the running call
    headers,           \* map_headers / process_pdf: header row of the current table
    mapped_headers,    \* map_headers result (dict: field -> zero-based column)
    data,              \* process_pdf: the response being built
    all_transactions,  \* process_pdf: transactions extracted so far, in order
    page_num,          \* process_pdf: number of the page being processed
    pages_left,        \* process_pdf: pages of the document not yet visited
    tables_left,       \* process_pdf: tables of the page not yet visited
    rows_left,         \* process_pdf: data rows of the table not yet visited
    row,               \* process_pdf: the data row last handed to extract_transactions
    transactions,      \* process_pdf: what extract_transactions last returned
    exc,               \* process_pdf: the exception caught by its handler ("" when none)
    doc_tables,        \* number of tables the document has delivered so far
    doc_rows,          \* number of data rows the document has delivered so far
    table_outcome,     \* what became of the table last visited: "small", "rejected",
                       \* "mapped" or "raised" ("" before the first table)
    rejected_at,       \* number of transactions extracted when a table was last rejected
                       \* (-1 when none was)
    parsers,           \* BankParser.parsers: an insertion-ordered dict, as its items in order
    reg_log,           \* the register_parser calls made so far, in order
    listed,            \* main: the directory entries visited so far
    file_name,         \* main: the directory entry being handled
    first_page_text,   \* BankParser.parse: text of the first page of the file being parsed
    invoked,           \* the strategy BankParser.parse called for the file ("" when none)
    parsed_data,       \* main: the response parse returned for the file
    raised,            \* the exception BankParser.parse ended with for the file ("" when none)
    json_files,        \* names of the files a result JSON was written for
    success_folder,    \* names of the files moved to the success folder
    amount_str,        \* parse_amount: the string it is called on
    cleaned,           \* parse_amount: the string it returned
    doc_ents,          \* extract_metadata: doc.ents, the entities recognized in the text
    extracted_metadata \* extract_metadata: the metadata it returned

hvars == <<headers, mapped_headers>>

gvars == <<data, all_transactions, page_num, pages_left, tables_left, rows_left, row,
           transactions, exc, doc_tables, doc_rows, table_outcome, rejected_at>>

rvars == <<parsers, reg_log, listed, file_name, first_page_text, invoked, parsed_data, raised,
           json_files, success_folder>>

avars == <<amount_str, cleaned>>

evars == <<doc_ents, extracted_metadata>>

vars == <<pc, hvars, gvars, rvars, avars, evars>>

-----------------------------------------------------------------------------
(* Bounds of the model *)

\* longest header row handed to map_headers on its own
MaxCols == 5

\* longest string handed to parse_amount on its own
MaxAmountLen == 4

\* most entities recognized in a text handed to extract_metadata on its own
MaxEntities == 3

\* pages of a document
MaxPages == 2

\* tables of a document, over all its pages
MaxTables == 2

\* data rows of a document, over all its tables
MaxRows == 3

\* register_parser calls made on a BankParser
MaxRegistrations == 2

\* directory entries main visits
MaxFiles == 2

-----------------------------------------------------------------------------
(* Python str helpers *)

\* str.upper() and str.lower(), letter by letter
ToUpper ==
    [a |-> "A", b |-> "B", c |-> "C", d |-> "D", e |-> "E", f |-> "F", g |-> "G", h |-> "H", i |-> "I", j |-> "J", k |-> "K", l |-> "L", m |-> "M", n |-> "N", o |-> "O", p |-> "P", q |-> "Q", r |-> "R", s |-> "S", t |-> "T", u |-> "U", v |-> "V", w |-> "W", x |-> "X", y |-> "Y", z |-> "Z"]

ToLower ==
    [A |-> "a", B |-> "b", C |-> "c", D |-> "d", E |-> "e", F |-> "f", G |-> "g", H |-> "h", I |-> "i", J |-> "j", K |-> "k", L |-> "l", M |-> "m", N |-> "n", O |-> "o", P |-> "p", Q |-> "q", R |-> "r", S |-> "s", T |-> "t", U |-> "u", V |-> "v", W |-> "w", X |-> "x", Y |-> "y", Z |-> "z"]

UpperChar(c) == IF c \in DOMAIN ToUpper THEN ToUpper[c] ELSE c

LowerChar(c) == IF c \in DOMAIN ToLower THEN ToLower[c] ELSE c

Upper(s) == [i \in 1..Len(s) |-> UpperChar(s[i])]

Lower(s) == [i \in 1..Len(s) |-> LowerChar(s[i])]

IsSpace(c) == c = " "

\* str.strip(): drops leading and trailing whitespace
RECURSIVE LStrip(_)
LStrip(s) == IF s # <<>> /\ IsSpace(Head(s)) THEN LStrip(Tail(s)) ELSE s

RECURSIVE RStrip(_)
RStrip(s) == IF s # <<>> /\ IsSpace(s[Len(s)]) THEN RStrip(SubSeq(s, 1, Len(s) - 1)) ELSE s

Strip(s) == RStrip(LStrip(s))

\* Python's  needle in hay  on str
Contains(hay, needle) ==
    \E i \in 0..(Len(hay) - Len(needle)) : SubSeq(hay, i + 1, i + Len(needle)) = needle

-----------------------------------------------------------------------------
(* HEADER_SYNONYMS *)

SYN_DATE == <<"D","A","T","E">>
SYN_TRANSACTION_DATE == <<"T","R","A","N","S","A","C","T","I","O","N"," ","D","A","T","E">>
SYN_VALUE_DATE == <<"V","A","L","U","E"," ","D","A","T","E">>
SYN_DATE_OF_TRANSACTION == <<"D","A","T","E"," ","O","F"," ","T","R","A","N","S","A","C","T","I","O","N">>
SYN_DESCRIPTION == <<"D","E","S","C","R","I","P","T","I","O","N">>
SYN_DETAILS == <<"D","E","T","A","I","L","S">>
SYN_TRANSACTION_DETAILS == <<"T","R","A","N","S","A","C","T","I","O","N"," ","D","E","T","A","I","L","S">>
SYN_PARTICULARS == <<"P","A","R","T","I","C","U","L","A","R","S">>
SYN_DEBIT == <<"D","E","B","I","T">>
SYN_WITHDRAWAL == <<"W","I","T","H","D","R","A","W","A","L">>
SYN_DR == <<"D","R">>
SYN_CREDIT == <<"C","R","E","D","I","T">>
SYN_DEPOSIT == <<"D","E","P","O","S","I","T">>
SYN_CR == <<"C","R">>
SYN_BALANCE == <<"B","A","L","A","N","C","E">>
SYN_AVAILABLE_BALANCE == <<"A","V","A","I","L","A","B","L","E"," ","B","A","L","A","N","C","E">>
SYN_CLOSING_BALANCE == <<"C","L","O","S","I","N","G"," ","B","A","L","A","N","C","E">>

\* the keys of HEADER_SYNONYMS in dict (insertion) order
FieldOrder == <<"date", "description", "debit", "credit", "balance">>

HEADER_SYNONYMS ==
    [date        |-> <<SYN_DATE, SYN_TRANSACTION_DATE, SYN_VALUE_DATE, SYN_DATE_OF_TRANSACTION>>,
     description |-> <<SYN_DESCRIPTION, SYN_DETAILS, SYN_TRANSACTION_DETAILS, SYN_PARTICULARS>>,
     debit       |-> <<SYN_DEBIT, SYN_WITHDRAWAL, SYN_DR>>,
     credit      |-> <<SYN_CREDIT, SYN_DEPOSIT, SYN_CR>>,
     balance     |-> <<SYN_BALANCE, SYN_AVAILABLE_BALANCE, SYN_CLOSING_BALANCE>>]

-----------------------------------------------------------------------------
(* Header cells *)

H_TxnDate == <<"T","x","n"," ","D","a","t","e">>
H_Particulars == <<"P","a","r","t","i","c","u","l","a","r","s">>
H_Withdrawal == <<"W","i","t","h","d","r","a","w","a","l">>
H_Deposit == <<"D","e","p","o","s","i","t">>
H_Balance == <<"B","a","l","a","n","c","e">>
H_DrCr == <<" ","D","r","/","C","r"," ">>
H_ChequeNo == <<"C","h","e","q","u","e"," ","N","o">>
H_Date == <<"D","a","t","e">>
H_Description == <<"D","e","s","c","r","i","p","t","i","o","n">>
H_Debit == <<"D","e","b","i","t">>
H_Credit == <<"C","r","e","d","i","t">>

\* the cells header rows are built from
HeaderCells == {H_TxnDate, H_Particulars, H_Withdrawal, H_Deposit, H_Balance, H_DrCr, H_ChequeNo}

\* the header row of Scenario 1
Scenario1Headers == <<H_TxnDate, H_Particulars, H_Withdrawal, H_Deposit, H_Balance>>

RECURSIVE SeqsUpTo(_, _)
SeqsUpTo(S, n) ==
    IF n = 0 THEN {<<>>}
    ELSE LET shorter == SeqsUpTo(S, n - 1)
         IN  shorter \cup {Append(s, x) : s \in {t \in shorter : Len(t) = n - 1}, x \in S}

-----------------------------------------------------------------------------
(* map_headers *)

\* Python dict: an empty dict, and  d[key] = value
EmptyDict == <<>>

DictSet(d, key, value) == [k \in (DOMAIN d) \cup {key} |-> IF k = key THEN value ELSE d[k]]

\* any(syn in header_clean for syn in synonyms)
AnySynonymIn(header_clean, key) ==
    \E j \in 1..Len(HEADER_SYNONYMS[key]) : Contains(header_clean, HEADER_SYNONYMS[key][j])

\* the inner loop over HEADER_SYNONYMS.items() with its break: the first key, in
\* dict order, one of whose synonyms occurs in the cleaned header; 0 when none
FirstMatchingField(header_clean) ==
    IF \E n \in 1..Len(FieldOrder) : AnySynonymIn(header_clean, FieldOrder[n])
    THEN CHOOSE n \in 1..Len(FieldOrder) :
            /\ AnySynonymIn(header_clean, FieldOrder[n])
            /\ \A m \in 1..(n - 1) : ~AnySynonymIn(header_clean, FieldOrder[m])
    ELSE 0

\* mutant of MapHeaderCell: the header is compared without upper()
MapHeaderCellCaseSensitive(mapped, idx, header) ==
    LET header_clean == Strip(header)
        n == FirstMatchingField(header_clean)
    IN  IF n = 0 THEN mapped ELSE DictSet(mapped, FieldOrder[n], idx)

\* one iteration of the outer loop: mapped[key] = idx for the matching key
MapHeaderCell(mapped, idx, header) ==
    LET header_clean == Upper(Strip(header))
        n == FirstMatchingField(header_clean)
    IN  IF n = 0 THEN mapped ELSE DictSet(mapped, FieldOrder[n], idx)

RECURSIVE MapHeadersFrom(_, _, _)
MapHeadersFrom(hdrs, idx, mapped) ==
    IF idx >= Len(hdrs) THEN mapped
    ELSE MapHeadersFrom(hdrs, idx + 1, MapHeaderCell(mapped, idx, hdrs[idx + 1]))

\* map_headers(headers): idx is zero-based, as enumerate() counts
map_headers(hdrs) == MapHeadersFrom(hdrs, 0, EmptyDict)

-----------------------------------------------------------------------------
(* Normalizers: parse_date and parse_amount *)

\* Python's None, where a str is expected
None == <<"None">>

DigitValue ==
    "0" :> 0 @@ "1" :> 1 @@ "2" :> 2 @@ "3" :> 3 @@ "4" :> 4 @@
    "5" :> 5 @@ "6" :> 6 @@ "7" :> 7 @@ "8" :> 8 @@ "9" :> 9

DigitChars == <<"0","1","2","3","4","5","6","7","8","9">>

IsDigit(c) == c \in DOMAIN DigitValue

RECURSIVE NumberOf(_)
NumberOf(s) == IF s = <<>> THEN 0 ELSE 10 * NumberOf(SubSeq(s, 1, Len(s) - 1)) + DigitValue[s[Len(s)]]

Pad2(n) == <<DigitChars[((n \div 10) % 10) + 1], DigitChars[(n % 10) + 1]>>

Pad4(n) == Pad2(n \div 100) \o Pad2(n % 100)

IsLeap(y) == (y % 4 = 0 /\ y % 100 # 0) \/ y % 400 = 0

DaysInMonth(m, y) ==
    IF m = 2 THEN (IF IsLeap(y) THEN 29 ELSE 28)
    ELSE IF m \in {4, 6, 9, 11} THEN 30 ELSE 31

\* a date written as two digits, a separator, two digits, the same separator and a
\* four-digit year: the numeric form statements use
IsNumericDate(s) ==
    /\ Len(s) = 10
    /\ s[3] \in {"/", "-"}
    /\ s[6] = s[3]
    /\ \A i \in {1, 2, 4, 5, 7, 8, 9, 10} : IsDigit(s[i])

\* date.strftime("%d-%m-%Y")
FormatDate(day, month, year) == Pad2(day) \o <<"-">> \o Pad2(month) \o <<"-">> \o Pad4(year)

\* parse_date: dateutil's parse(date_str, dayfirst=True) on the strings of this
\* model (numeric dates with a year from 1000 on, and strings that hold no date).
\* The first number is the day unless it is at most 12 and the second exceeds 12,
\* in which case the two are swapped; a month or day out of range, like any
\* string that holds no date, raises ValueError, which parse_date turns into None.
parse_date(date_str) ==
    IF ~IsNumericDate(date_str) THEN None
    ELSE LET a == NumberOf(SubSeq(date_str, 1, 2))
             b == NumberOf(SubSeq(date_str, 4, 5))
             year == NumberOf(SubSeq(date_str, 7, 10))
             dayfirst == a > 12 \/ b <= 12
             day == IF dayfirst THEN a ELSE b
             month == IF dayfirst THEN b ELSE a
         IN  IF /\ year >= 1000
                /\ month \in 1..12
                /\ day \in 1..DaysInMonth(month, year)
             THEN FormatDate(day, month, year)
             ELSE None

\* the characters re.sub(r'[^\d.,]', '', amount_str) keeps
IsAmountChar(c) == IsDigit(c) \/ c \in {".", ","}

\* parse_amount
parse_amount(s) == SelectSeq(s, IsAmountChar)

-----------------------------------------------------------------------------
(* Table cells and rows *)

NA == <<"N","A">>
UNKNOWN_BANK == <<"U","n","k","n","o","w","n"," ","B","a","n","k">>
D_Slash == <<"0","1","/","0","2","/","2","0","2","2">>
D_Canonical == <<"0","1","-","0","2","-","2","0","2","2">>
D_Padded == <<" ","0","1","-","0","2","-","2","0","2","2"," ">>
D_MonthFirst == <<"0","1","/","1","3","/","2","0","2","2">>
D_Thirteenth == <<"1","3","-","0","1","-","2","0","2","2">>
D_Feb31 == <<"3","1","/","0","2","/","2","0","2","2">>
T_Hitachi == <<"H","i","t","a","c","h","i"," ","A","T","M"," ","C","a","s","h">>
T_Service == <<"S","e","r","v","i","c","e"," ","C","h","a","r","g","e">>
T_Neft == <<"N","E","F","T">>
T_Opening == <<"O","p","e","n","i","n","g">>
A_500 == <<"5","0","0",".","0","0">>
A_1200 == <<"1","2","0","0",".","0","0">>
A_RsCredit == <<"R","s"," ","1",",","0","0","0",".","0","0"," ","C","r">>
A_1000 == <<"1",",","0","0","0",".","0","0">>
A_2200 == <<"2",",","2","0","0",".","0","0">>
A_Dash == <<"-">>
A_100 == <<"1","0","0",".","0","0">>

EmptyStr == <<>>

\* Scenario 2: a debit row
R_Scenario2 == <<D_Slash, T_Hitachi, A_500, EmptyStr, A_1200>>

\* Scenario 3: a row without a date
R_Scenario3 == <<EmptyStr, T_Service, EmptyStr, EmptyStr, A_1200>>

\* the row of Scenario 2 as another extraction pass renders it
R_Again == <<D_Padded, T_Hitachi, A_500, A_Dash, A_1200>>

\* a credit row, month written first
R_Credit == <<D_MonthFirst, T_Neft, EmptyStr, A_RsCredit, A_2200>>

\* a row with neither debit nor credit
R_NoMovement == <<D_Slash, T_Opening, A_Dash, EmptyStr, A_100>>

\* a row that stops before the balance column
R_Short == <<D_Slash, T_Hitachi, A_500, EmptyStr>>

\* a row with a blank cell, which the table extraction hands over as None
R_NoneCell == <<D_Slash, None, A_500, EmptyStr, A_1200>>

DataRows == {R_Scenario2, R_Scenario3, R_Again, R_Credit, R_NoMovement, R_Short, R_NoneCell}

-----------------------------------------------------------------------------
(* extract_transactions *)

\* the result of a call: the exception it raised ("" when none) and its value
Returned(value) == [exc |-> "", value |-> value]

Raised(exception) == [exc |-> exception, value |-> <<>>]

\* max(mapped_headers.values())
MaxColumn(mapped) == CHOOSE x \in {mapped[k] : k \in DOMAIN mapped} : \A k \in DOMAIN mapped : mapped[k] <= x

\* mutant of RowTooShort: the test is off by one
RowTooShortOffByOne(r, mapped) == Len(r) < MaxColumn(mapped)

\* the length test that guards the cell reads of a row
RowTooShort(r, mapped) == Len(r) < MaxColumn(mapped) + 1

\* the columns a row is read at: those of the mapped canonical fields
ColumnsRead(mapped) == {mapped[k] : k \in (DOMAIN mapped) \cap {"date", "description", "debit", "credit", "balance"}}

\* mutant of IsNoMovement: a row counts as a movement already when it has a balance
IsNoMovementUnlessBalance(transaction_data) ==
    transaction_data.DEBIT = EmptyStr /\ transaction_data.CREDIT = EmptyStr /\ transaction_data.BALANCE = EmptyStr

\* not transaction_data["DEBIT"] and not transaction_data["CREDIT"]
IsNoMovement(transaction_data) ==
    transaction_data.DEBIT = EmptyStr /\ transaction_data.CREDIT = EmptyStr

\* row[mapped_headers.get(field, -1)].strip(), or the default of an unmapped field
StrippedCell(r, mapped, field, default) ==
    IF field \in DOMAIN mapped THEN Strip(r[mapped[field] + 1]) ELSE default

\* one iteration of the loop over the rows: the exception raised, whether the row
\* is skipped, and the transaction otherwise
ExtractRow(r, mapped) ==
    IF DOMAIN mapped = {} THEN [exc |-> "ValueError", emitted |-> <<>>]
    ELSE IF RowTooShort(r, mapped) THEN [exc |-> "", emitted |-> <<>>]
    ELSE IF \E c \in ColumnsRead(mapped) : c >= Len(r) THEN [exc |-> "IndexError", emitted |-> <<>>]
    ELSE IF \E c \in ColumnsRead(mapped) : r[c + 1] = None THEN [exc |-> "AttributeError", emitted |-> <<>>]
    ELSE LET transaction_data ==
                 [DATE        |-> StrippedCell(r, mapped, "date", NA),
                  DESCRIPTION |-> StrippedCell(r, mapped, "description", NA),
                  DEBIT       |-> parse_amount(StrippedCell(r, mapped, "debit", EmptyStr)),
                  CREDIT      |-> parse_amount(StrippedCell(r, mapped, "credit", EmptyStr)),
                  BALANCE     |-> parse_amount(StrippedCell(r, mapped, "balance", EmptyStr))]
             parsed_date == parse_date(transaction_data.DATE)
         IN  IF parsed_date = None \/ parsed_date = EmptyStr
             THEN [exc |-> "", emitted |-> <<>>]
             ELSE IF IsNoMovement(transaction_data)
             THEN [exc |-> "", emitted |-> <<>>]
             ELSE [exc |-> "", emitted |-> <<[transaction_data EXCEPT !.DATE = parsed_date]>>]

\* extract_transactions(tables, mapped_headers, page_num): the transactions of the
\* rows in order, or the first exception a row raises
RECURSIVE extract_transactions(_, _)
extract_transactions(rows, mapped) ==
    IF rows = <<>> THEN Returned(<<>>)
    ELSE LET first == ExtractRow(Head(rows), mapped)
             rest == extract_transactions(Tail(rows), mapped)
         IN  IF first.exc # "" THEN Raised(first.exc)
             ELSE IF rest.exc # "" THEN Raised(rest.exc)
             ELSE Returned(first.emitted \o rest.value)

-----------------------------------------------------------------------------
(* extract_metadata *)

D_PeriodFrom == <<"0","1","/","0","4","/","2","0","2","2">>
D_PeriodTo == <<"3","0","/","0","4","/","2","0","2","2">>
D_Apr01 == <<"0","1","-","0","4","-","2","0","2","2">>
D_Apr30 == <<"3","0","-","0","4","-","2","0","2","2">>
E_StateBank == <<"S","t","a","t","e"," ","B","a","n","k"," ","o","f"," ","I","n","d","i","a">>
E_Kumar == <<"R"," ","K","u","m","a","r">>
E_Traders == <<"K","u","m","a","r"," ","T","r","a","d","e","r","s">>
E_Short == <<"1","2","3","4">>
E_Account == <<"1","2","3","4","5","6","7","8","9","0","1">>
IFSC_SBIN == <<"S","B","I","N","0","0","0","1","2","3","4">>

\* The first page's text, as what spaCy and the regular expressions find in it:
\* the entities in order, the IFSC match, what re.findall returns for the two
\* date patterns, and what re.search returns for the three balance patterns.
P_Empty ==
    [ents |-> <<>>, ifsc |-> None, from_dates |-> <<>>, periods |-> <<>>,
     balances |-> <<None, None, None>>]

P_Full ==
    [ents |-> <<[label_ |-> "ORG", text |-> E_StateBank], [label_ |-> "PERSON", text |-> E_Kumar],
                [label_ |-> "CARDINAL", text |-> E_Short], [label_ |-> "CARDINAL", text |-> E_Account]>>,
     ifsc |-> IFSC_SBIN, from_dates |-> <<>>, periods |-> <<<<D_PeriodFrom, D_PeriodTo>>>>,
     balances |-> <<None, A_1000, A_2200>>]

P_HolderFirst ==
    [ents |-> <<[label_ |-> "PERSON", text |-> E_Kumar], [label_ |-> "ORG", text |-> E_StateBank],
                [label_ |-> "ORG", text |-> E_Traders]>>,
     ifsc |-> None, from_dates |-> <<D_Feb31>>, periods |-> <<<<D_PeriodFrom, D_PeriodTo>>>>,
     balances |-> <<A_1200, None, None>>]

P_BankTwice ==
    [ents |-> <<[label_ |-> "ORG", text |-> E_StateBank], [label_ |-> "ORG", text |-> E_StateBank]>>,
     ifsc |-> None, from_dates |-> <<D_PeriodFrom>>, periods |-> <<>>,
     balances |-> <<None, None, A_100>>]

FirstPageTexts == {P_Empty, P_Full, P_HolderFirst, P_BankTwice}

MetadataFields ==
    {"BankName", "AccountHolder", "AccountNumber", "IFSCCode", "TransactionFrom",
     "TransactionTo", "ClearedBalance"}

\* the metadata dict extract_metadata starts from
DefaultMetadata ==
    [BankName |-> UNKNOWN_BANK, AccountHolder |-> NA, AccountNumber |-> NA, IFSCCode |-> NA,
     TransactionFrom |-> NA, TransactionTo |-> NA, ClearedBalance |-> NA]

\* one iteration of the loop over doc.ents
TakeEntity(metadata, ent) ==
    IF ent.label_ = "ORG" /\ metadata.BankName = UNKNOWN_BANK
    THEN [metadata EXCEPT !.BankName = ent.text]
    ELSE IF ent.label_ \in {"PERSON", "ORG"} /\ metadata.AccountHolder = NA
    THEN [metadata EXCEPT !.AccountHolder = ent.text]
    ELSE IF ent.label_ = "CARDINAL" /\ metadata.AccountNumber = NA /\ Len(ent.text) >= 8
    THEN [metadata EXCEPT !.AccountNumber = ent.text]
    ELSE metadata

RECURSIVE TakeEntities(_, _)
TakeEntities(metadata, ents) ==
    IF ents = <<>> THEN metadata ELSE TakeEntities(TakeEntity(metadata, Head(ents)), Tail(ents))

\* mutant of ParseDateOrNA: the "NA" default is left out
ParseDateOrNone(date_str) == parse_date(date_str)

\* parse_date(x) or "NA"
ParseDateOrNA(date_str) ==
    LET parsed == parse_date(date_str) IN IF parsed = None \/ parsed = EmptyStr THEN NA ELSE parsed

\* the IFSC code found by detect_ifsc_code, when there is one
TakeIfsc(metadata, text) ==
    IF text.ifsc # None /\ text.ifsc # EmptyStr THEN [metadata EXCEPT !.IFSCCode = text.ifsc] ELSE metadata

\* the loop over date_patterns: the first pattern with a match decides
TakePeriod(metadata, text) ==
    IF text.from_dates # <<>>
    THEN [metadata EXCEPT !.TransactionFrom = ParseDateOrNA(text.from_dates[1]),
                          !.TransactionTo = ParseDateOrNA(text.from_dates[1])]
    ELSE IF text.periods # <<>>
    THEN [metadata EXCEPT !.TransactionFrom = ParseDateOrNA(text.periods[1][1]),
                          !.TransactionTo = ParseDateOrNA(text.periods[1][2])]
    ELSE metadata

\* the loop over balance_patterns: the first pattern with a match decides
TakeBalance(metadata, text) ==
    IF \E n \in 1..Len(text.balances) : text.balances[n] # None
    THEN LET n == CHOOSE m \in 1..Len(text.balances) :
                     /\ text.balances[m] # None
                     /\ \A l \in 1..(m - 1) : text.balances[l] = None
         IN  [metadata EXCEPT !.ClearedBalance = text.balances[n]]
    ELSE metadata

\* extract_metadata(text)
extract_metadata(text) ==
    TakeBalance(TakePeriod(TakeIfsc(TakeEntities(DefaultMetadata, text.ents), text), text), text)

\* what pdf.pages[0].extract_text() gives extract_metadata_from_pdf: a text, or
\* "no pages" (IndexError) or "no text" (None, on which nlp raises)
FirstPages == {[kind |-> "text", text |-> t] : t \in FirstPageTexts}
                 \cup {[kind |-> "no text", text |-> P_Empty], [kind |-> "no pages", text |-> P_Empty]}

\* extract_metadata_from_pdf(pdf): the metadata, or {} when anything raised
extract_metadata_from_pdf(first_page) ==
    IF first_page.kind = "text" THEN extract_metadata(first_page.text) ELSE EmptyDict

-----------------------------------------------------------------------------
(* process_pdf *)

\* data, as process_pdf initialises it
InitialData ==
    [ResponseCode |-> "00",
     ResponseMessage |-> "All fields extracted successfully",
     Data |-> [BankName |-> UNKNOWN_BANK, AccountHolder |-> NA, AccountNumber |-> NA,
               IFSCCode |-> NA, TransactionFrom |-> NA, TransactionTo |-> NA,
               ClearedBalance |-> NA, bankStatementTransactions |-> <<>>]]

\* dict.update(other)
DictUpdate(d, other) ==
    [k \in (DOMAIN d) \cup (DOMAIN other) |-> IF k \in DOMAIN other THEN other[k] ELSE d[k]]

\* header rows of the tables of a document
HR_NoCredit == <<H_Date, H_Description, H_Debit, H_Balance>>

HR_DrCr == <<H_Date, H_Description, H_Debit, H_Credit, H_Balance, H_DrCr>>

HR_NoneCell == <<H_Date, None, H_Debit, H_Credit, H_Balance>>

TableHeaders == {Scenario1Headers, HR_NoCredit, HR_DrCr, HR_NoneCell}

required_fields == <<"date", "description", "debit", "credit", "balance">>

\* mutant of MissingFields: credit is not among the required fields
MissingFieldsButCredit(mapped) == {"date", "description", "debit", "balance"} \ DOMAIN mapped

\* missing_fields, as a set
MissingFields(mapped) == {required_fields[n] : n \in 1..Len(required_fields)} \ DOMAIN mapped

\* the deduplication key of a transaction
KeyOf(t) == <<t.DATE, t.DESCRIPTION, t.DEBIT, t.CREDIT, t.BALANCE>>

\* the loop filling unique_transactions, an insertion-ordered dict, given here as
\* the sequence of its values in key insertion order
RECURSIVE UniqueFrom(_, _)
UniqueFrom(unique, txns) ==
    IF txns = <<>> THEN unique
    ELSE LET t == Head(txns)
         IN  UniqueFrom(IF \E i \in 1..Len(unique) : KeyOf(unique[i]) = KeyOf(t)
                        THEN unique ELSE Append(unique, t),
                        Tail(txns))

\* mutant of Deduplicate: a repeated key moves to the end, so the last occurrence
\* of each key gives its place
RECURSIVE DeduplicateKeepingLast(_)
DeduplicateKeepingLast(txns) ==
    IF txns = <<>> THEN <<>>
    ELSE IF \E i \in 2..Len(txns) : KeyOf(txns[i]) = KeyOf(Head(txns))
    THEN DeduplicateKeepingLast(Tail(txns))
    ELSE <<Head(txns)>> \o DeduplicateKeepingLast(Tail(txns))

\* list(unique_transactions.values())
Deduplicate(txns) == UniqueFrom(<<>>, txns)

\* mutant of Fail: an exception is reported like a document without transactions
FailAsNoTransactions(exception) ==
    /\ data' = [data EXCEPT !.ResponseCode = "01",
                            !.ResponseMessage = "No valid transactions found."]
    /\ exc' = exception
    /\ pc' = "done"

\* the except clause of process_pdf
Fail(exception) ==
    /\ data' = [data EXCEPT !.ResponseCode = "99",
                            !.ResponseMessage = "An error occurred during processing."]
    /\ exc' = exception
    /\ pc' = "done"

\* where the table loop continues once a table is done
AfterTable(left) == IF left = 0 THEN "pages" ELSE "tables"

\* parse_amount is not being called on its own
AmountIdle ==
    /\ amount_str = <<>>
    /\ cleaned = <<>>

\* extract_metadata is not being called on its own
EntitiesIdle ==
    /\ doc_ents = <<>>
    /\ extracted_metadata = EmptyDict

\* process_pdf is not running
GenericIdle ==
    /\ headers = <<>>
    /\ mapped_headers = EmptyDict
    /\ data = InitialData
    /\ all_transactions = <<>>
    /\ page_num = 0
    /\ pages_left = 0
    /\ tables_left = 0
    /\ rows_left = 0
    /\ row = <<>>
    /\ transactions = <<>>
    /\ exc = ""
    /\ doc_tables = 0
    /\ doc_rows = 0
    /\ table_outcome = ""
    /\ rejected_at = -1

\* the registry is not in use
RegistryIdle ==
    /\ parsers = <<>>
    /\ reg_log = <<>>
    /\ listed = {}
    /\ file_name = <<>>
    /\ first_page_text = <<>>
    /\ invoked = ""
    /\ parsed_data = [Response_Code |-> "", Remarks |-> [text |-> "", fields |-> <<>>]]
    /\ raised = ""
    /\ json_files = {}
    /\ success_folder = {}

InitGeneric ==
    /\ pc = "open"
    /\ AmountIdle
    /\ EntitiesIdle
    /\ GenericIdle
    /\ RegistryIdle

\* pdfplumber.open fails: the document is malformed
OpenFails ==
    /\ pc = "open"
    /\ Fail("PDFSyntaxError")
    /\ UNCHANGED <<avars, evars, hvars, all_transactions, page_num, pages_left, tables_left, rows_left, row,
                   transactions, doc_tables, doc_rows, table_outcome, rejected_at>>
    /\ UNCHANGED rvars

\* the document opens; its metadata is extracted and merged into data
OpenAndExtractMetadata ==
    /\ pc = "open"
    /\ \E first_page \in FirstPages, npages \in 0..MaxPages :
        /\ (first_page.kind = "no pages") <=> (npages = 0)
        /\ data' = [data EXCEPT !.Data = DictUpdate(data.Data, extract_metadata_from_pdf(first_page))]
        /\ pages_left' = npages
    /\ pc' = "pages"
    /\ UNCHANGED <<avars, evars, hvars, all_transactions, page_num, tables_left, rows_left, row,
                   transactions, exc, doc_tables, doc_rows, table_outcome, rejected_at>>
    /\ UNCHANGED rvars

\* page.extract_tables raises
ExtractTablesFails ==
    /\ pc = "pages"
    /\ pages_left > 0
    /\ page_num' = page_num + 1
    /\ pages_left' = pages_left - 1
    /\ Fail("Exception")
    /\ UNCHANGED <<avars, evars, hvars, all_transactions, tables_left, rows_left, row,
                   transactions, doc_tables, doc_rows, table_outcome, rejected_at>>
    /\ UNCHANGED rvars

\* the next page: its tables are extracted; a page without tables is passed over
NextPage ==
    /\ pc = "pages"
    /\ pages_left > 0
    /\ page_num' = page_num + 1
    /\ pages_left' = pages_left - 1
    /\ \E ntables \in 0..(MaxTables - doc_tables) :
        /\ tables_left' = ntables
        /\ doc_tables' = doc_tables + ntables
        /\ pc' = IF ntables = 0 THEN "pages" ELSE "tables"
    /\ UNCHANGED <<avars, evars, hvars, data, all_transactions, rows_left, row, transactions, exc,
                   doc_rows, table_outcome, rejected_at>>
    /\ UNCHANGED rvars

\* a table that is empty or has only its header row: passed over
SkipSmallTable ==
    /\ pc = "tables"
    /\ tables_left > 0
    /\ tables_left' = tables_left - 1
    /\ pc' = AfterTable(tables_left')
    /\ table_outcome' = "small"
    /\ UNCHANGED <<avars, evars, hvars, data, all_transactions, page_num, pages_left, rows_left, row,
                   transactions, exc, doc_tables, doc_rows, rejected_at>>
    /\ UNCHANGED rvars

\* a table with data rows: its header row is mapped; the table is rejected when a
\* required field is missing, and its rows are visited otherwise
StartTable ==
    /\ pc = "tables"
    /\ tables_left > 0
    /\ \E hdrs \in TableHeaders, nrows \in 1..(MaxRows - doc_rows) :
        /\ headers' = hdrs
        /\ tables_left' = tables_left - 1
        /\ IF \E i \in 1..Len(hdrs) : hdrs[i] = None
           THEN /\ Fail("AttributeError")
                /\ table_outcome' = "raised"
                /\ UNCHANGED <<mapped_headers, rows_left, doc_rows, rejected_at>>
           ELSE /\ mapped_headers' = map_headers(hdrs)
                /\ IF MissingFields(mapped_headers') # {}
                   THEN /\ pc' = AfterTable(tables_left')
                        /\ table_outcome' = "rejected"
                        /\ rejected_at' = Len(all_transactions)
                        /\ UNCHANGED <<rows_left, doc_rows>>
                   ELSE /\ pc' = "rows"
                        /\ table_outcome' = "mapped"
                        /\ rows_left' = nrows
                        /\ doc_rows' = doc_rows + nrows
                        /\ UNCHANGED rejected_at
                /\ UNCHANGED <<data, exc>>
    /\ UNCHANGED <<avars, evars, all_transactions, page_num, pages_left, row, transactions, doc_tables>>
    /\ UNCHANGED rvars

\* the next data row of the table goes through extract_transactions
NextRow ==
    /\ pc = "rows"
    /\ rows_left > 0
    /\ \E r \in DataRows :
        LET result == extract_transactions(<<r>>, mapped_headers)
        IN  /\ row' = r
            /\ rows_left' = rows_left - 1
            /\ IF result.exc # ""
               THEN /\ Fail(result.exc)
                    /\ UNCHANGED <<transactions, all_transactions>>
               ELSE /\ transactions' = result.value
                    /\ all_transactions' = all_transactions \o result.value
                    /\ pc' = IF rows_left' = 0 THEN AfterTable(tables_left) ELSE "rows"
                    /\ UNCHANGED <<data, exc>>
    /\ UNCHANGED <<avars, evars, hvars, page_num, pages_left, tables_left, doc_tables, doc_rows, table_outcome, rejected_at>>
    /\ UNCHANGED rvars

\* after the last page: deduplication and the response code
Finish ==
    /\ pc = "pages"
    /\ pages_left = 0
    /\ LET unique_transactions == Deduplicate(all_transactions)
       IN  data' = IF unique_transactions = <<>>
                   THEN [data EXCEPT !.Data.bankStatementTransactions = unique_transactions,
                                     !.ResponseCode = "01",
                                     !.ResponseMessage = "No valid transactions found."]
                   ELSE [data EXCEPT !.Data.bankStatementTransactions = unique_transactions]
    /\ pc' = "done"
    /\ UNCHANGED <<avars, evars, hvars, all_transactions, page_num, pages_left, tables_left, rows_left, row,
                   transactions, exc, doc_tables, doc_rows, table_outcome, rejected_at>>
    /\ UNCHANGED rvars

NextGeneric ==
    \/ OpenFails
    \/ OpenAndExtractMetadata
    \/ ExtractTablesFails
    \/ NextPage
    \/ SkipSmallTable
    \/ StartTable
    \/ NextRow
    \/ Finish

SpecGeneric == InitGeneric /\ [][NextGeneric]_vars

-----------------------------------------------------------------------------
(* app.py: generate_response, BankParser, the bank strategies and main *)

N_Central == <<"C","e","n","t","r","a","l"," ","B","a","n","k"," ","o","f"," ","I","n","d","i","a">>
N_City == <<"C","i","t","y"," ","U","n","i","o","n"," ","B","a","n","k">>
N_Gramin == <<"C","h","h","a","t","t","i","s","g","a","r","h"," ","R","a","j","y","a"," ","G","r","a","m","i","n"," ","B","a","n","k">>
N_CityUpper == <<"C","I","T","Y"," ","U","N","I","O","N"," ","B","A","N","K">>
X_CityChennai == <<"C","i","t","y"," ","U","n","i","o","n"," ","B","a","n","k"," ","B","r","a","n","c","h",":"," ","C","h","e","n","n","a","i">>
X_Both == <<"C","e","n","t","r","a","l"," ","B","a","n","k"," ","o","f"," ","I","n","d","i","a"," ","t","o"," ","C","i","t","y"," ","U","n","i","o","n"," ","B","a","n","k">>
X_Other == <<"A","x","i","s"," ","L","t","d">>
F_a == <<"a",".","p","d","f">>
F_B == <<"B",".","P","D","F">>
F_notes == <<"n","o","t","e","s",".","t","x","t">>
EXT_PDF == <<".","p","d","f">>
V_Chennai == <<"C","h","e","n","n","a","i">>

\* a file that is no readable PDF: pdfplumber.open raises PDFSyntaxError on it,
\* before any page is read
NotAPdf == <<"NotAPdf">>

\* the keys of the data dict of a strategy, in insertion order
DataKeys == <<"Bank_Name", "Branch_Name", "Account_Holder", "Account_Number", "IFSC_Code", "Cleared_Balance">>

\* [field for field, value in data.items() if value is None]
IsMissing(d, key) == d[key] = None

RECURSIVE MissingIn(_, _)
MissingIn(d, keys) ==
    IF keys = <<>> THEN <<>>
    ELSE (IF IsMissing(d, Head(keys)) THEN <<Head(keys)>> ELSE <<>>) \o MissingIn(d, Tail(keys))

\* generate_response(data, transactions); the remark "Missed fields: a, b" is
\* given as its text and the names joined into it
generate_response(d, txns) ==
    LET missing_fields == MissingIn(d, DataKeys)
    IN  IF missing_fields # <<>>
        THEN [Response_Code |-> "01",
              Remarks |-> [text |-> "Missed fields: ", fields |-> missing_fields],
              Data |-> d, Transactions |-> txns]
        ELSE [Response_Code |-> "00",
              Remarks |-> [text |-> "All fields extracted successfully", fields |-> <<>>],
              Data |-> d, Transactions |-> txns]

\* the bank name each strategy writes into its data
BankNameOf(strategy) ==
    IF strategy = "central_bank_of_india_parser" THEN N_Central
    ELSE IF strategy = "city_union_bank_parser" THEN N_City
    ELSE N_Gramin

\* What the five extract_pattern calls of a strategy find on a first page: for
\* each field the captured text, or None when the pattern has no match.
FoundAll ==
    [Branch_Name |-> V_Chennai, Account_Holder |-> E_Traders, Account_Number |-> E_Account,
     IFSC_Code |-> IFSC_SBIN, Cleared_Balance |-> A_1200]

FoundNoNumbers == [FoundAll EXCEPT !.Account_Number = None, !.IFSC_Code = None, !.Cleared_Balance = None]

PatternResults == {FoundAll, FoundNoNumbers}


(* convert_date_to_d_mm_yyyy and the row loops of the bank strategies *)

HITACHI == <<"h","i","t","a","c","h","i">>
D_Iso == <<"2","0","2","2","-","0","2","-","0","1">>
D_ShortYear == <<"1","/","2","/","2","2">>
D_MonthName == <<"0","1","-","S","E","P","-","2","2">>
D_MonthNameLong == <<" ","0","1","-","S","e","p","-","2","0","2","2">>
B_001 == <<"0","0","1">>

\* possible_formats, in order: the separator, the month directive (%m or %b) and
\* the year directive (%Y or %y) of each
possible_formats ==
    <<[sep |-> "/", month |-> "m", year |-> "Y"],
      [sep |-> "-", month |-> "m", year |-> "Y"],
      [sep |-> "/", month |-> "m", year |-> "y"],
      [sep |-> "-", month |-> "m", year |-> "y"],
      [sep |-> "-", month |-> "b", year |-> "y"],
      [sep |-> "-", month |-> "b", year |-> "Y"]>>

\* the abbreviated month names %b accepts, letter case ignored
MonthAbbreviations ==
    <<<<"j","a","n">>,
      <<"f","e","b">>,
      <<"m","a","r">>,
      <<"a","p","r">>,
      <<"m","a","y">>,
      <<"j","u","n">>,
      <<"j","u","l">>,
      <<"a","u","g">>,
      <<"s","e","p">>,
      <<"o","c","t">>,
      <<"n","o","v">>,
      <<"d","e","c">>>>

AllDigits(s) == \A i \in 1..Len(s) : IsDigit(s[i])

\* %d: one or two digits, 1 to 31; 0 when the text is no day
DayOf(s) == IF Len(s) \in {1, 2} /\ AllDigits(s) /\ NumberOf(s) \in 1..31 THEN NumberOf(s) ELSE 0

\* %m: one or two digits, 1 to 12; %b: an abbreviated month name; 0 when the
\* text is no month
MonthOf(s, directive) ==
    IF directive = "m"
    THEN (IF Len(s) \in {1, 2} /\ AllDigits(s) /\ NumberOf(s) \in 1..12 THEN NumberOf(s) ELSE 0)
    ELSE (IF \E n \in 1..12 : MonthAbbreviations[n] = Lower(s)
          THEN CHOOSE n \in 1..12 : MonthAbbreviations[n] = Lower(s)
          ELSE 0)

\* %Y: four digits; %y: two digits, 69 to 99 in the 1900s and 0 to 68 in the
\* 2000s; 0 when the text is no year
YearOf(s, directive) ==
    IF directive = "Y"
    THEN (IF Len(s) = 4 /\ AllDigits(s) THEN NumberOf(s) ELSE 0)
    ELSE (IF Len(s) = 2 /\ AllDigits(s)
          THEN (IF NumberOf(s) >= 69 THEN 1900 + NumberOf(s) ELSE 2000 + NumberOf(s))
          ELSE 0)

NoDate == [day |-> 0, month |-> 0, year |-> 0]

\* the date of a day, a month and a year, or NoDate when one of them is missing
\* or the month does not have the day (datetime raises ValueError)
DateOf(day, month, year) ==
    IF day = 0 \/ month = 0 \/ year = 0 THEN NoDate
    ELSE IF day > DaysInMonth(month, year) THEN NoDate
    ELSE [day |-> day, month |-> month, year |-> year]

\* the date of the three fields of date_str left by its separators at the
\* positions first and second
DateOfFields(date_str, fmt, first, second) ==
    DateOf(DayOf(SubSeq(date_str, 1, first - 1)),
           MonthOf(SubSeq(date_str, first + 1, second - 1), fmt.month),
           YearOf(SubSeq(date_str, second + 1, Len(date_str)), fmt.year))

FirstOf(positions) == CHOOSE i \in positions : \A j \in positions : i <= j

LastOf(positions) == CHOOSE i \in positions : \A j \in positions : i >= j

\* the date of date_str when it holds the separator at exactly these positions
DateSeparatedAt(date_str, fmt, seps) ==
    IF Cardinality(seps) # 2 THEN NoDate
    ELSE DateOfFields(date_str, fmt, FirstOf(seps), LastOf(seps))

\* datetime.datetime.strptime(date_str, fmt): the date, or NoDate where strptime
\* raises ValueError (the text does not match the format, or names a day the
\* month does not have)
strptime(date_str, fmt) ==
    DateSeparatedAt(date_str, fmt, {i \in 1..Len(date_str) : date_str[i] = fmt.sep})

\* what strptime gives for each of possible_formats
StrptimeEach(date_str) ==
    [n \in 1..Len(possible_formats) |-> strptime(date_str, possible_formats[n])]

\* the first of possible_formats that gave a date, 0 when none did
FirstMatchingFormat(parsed) ==
    IF \E n \in DOMAIN parsed : parsed[n] # NoDate
    THEN CHOOSE n \in DOMAIN parsed :
            /\ parsed[n] # NoDate
            /\ \A m \in 1..(n - 1) : parsed[m] = NoDate
    ELSE 0

\* dt.strftime("%d-%m-%Y") of the format that matched, and date_str itself when
\* none did
FormatMatchOrKeep(date_str, parsed, n) ==
    IF n = 0 THEN date_str ELSE FormatDate(parsed[n].day, parsed[n].month, parsed[n].year)

\* the loop over possible_formats: the first format that matches decides
TryFormats(date_str, parsed) == FormatMatchOrKeep(date_str, parsed, FirstMatchingFormat(parsed))

\* the body of convert_date_to_d_mm_yyyy after date_str = date_str.strip()
ConvertStripped(date_str) == TryFormats(date_str, StrptimeEach(date_str))

\* convert_date_to_d_mm_yyyy(date_str) on texts whose year has four digits when
\* written in full: the date of the first matching format as DD-MM-YYYY, and the
\* stripped text itself when no format matches
convert_date_to_d_mm_yyyy(date_str) == ConvertStripped(Strip(date_str))

\* cell.strip() if cell else ""
StripOrEmpty(cell) == IF cell = None \/ cell = EmptyStr THEN EmptyStr ELSE Strip(cell)

\* row[n].strip() if len(row) > n and row[n] else "", n counted from 0
StripOrEmptyAt(r, n) == IF Len(r) > n THEN StripOrEmpty(r[n + 1]) ELSE EmptyStr

\* "hitachi" in cell.lower()
IsHitachi(cell) == Contains(Lower(cell), HITACHI)

\* one iteration of the row loop of central_bank_of_india_parser
CentralRow(r) ==
    IF Len(r) < 5 THEN [exc |-> "", emitted |-> <<>>]
    ELSE IF r[5] = None THEN [exc |-> "AttributeError", emitted |-> <<>>]
    ELSE IF ~IsHitachi(r[5]) THEN [exc |-> "", emitted |-> <<>>]
    ELSE [exc |-> "",
          emitted |-> <<("Post Date" :> convert_date_to_d_mm_yyyy(StripOrEmpty(r[1])))
                        @@ ("Value Date" :> convert_date_to_d_mm_yyyy(StripOrEmpty(r[2])))
                        @@ ("Branch Code" :> StripOrEmpty(r[3]))
                        @@ ("Cheque Number" :> StripOrEmpty(r[4]))
                        @@ ("Description" :> StripOrEmpty(r[5]))
                        @@ ("Debit" :> StripOrEmptyAt(r, 5))
                        @@ ("Credit" :> StripOrEmptyAt(r, 6))
                        @@ ("Balance" :> StripOrEmptyAt(r, 7))>>]

\* one iteration of the row loop of city_union_bank_parser
CityRow(r) ==
    IF Len(r) < 6 THEN [exc |-> "", emitted |-> <<>>]
    ELSE IF r[2] = None THEN [exc |-> "AttributeError", emitted |-> <<>>]
    ELSE IF ~IsHitachi(r[2]) THEN [exc |-> "", emitted |-> <<>>]
    ELSE [exc |-> "",
          emitted |-> <<("Date" :> convert_date_to_d_mm_yyyy(StripOrEmpty(r[1])))
                        @@ ("Description" :> StripOrEmpty(r[2]))
                        @@ ("Cheque" :> StripOrEmpty(r[3]))
                        @@ ("Debit" :> StripOrEmpty(r[4]))
                        @@ ("Credit" :> StripOrEmpty(r[5]))
                        @@ ("Balance" :> StripOrEmpty(r[6]))>>]

\* one iteration of the row loop of chhattisgarh_rajya_gramin_bank_parser
GraminRow(r) ==
    IF Len(r) < 6 THEN [exc |-> "", emitted |-> <<>>]
    ELSE IF r[3] = None THEN [exc |-> "AttributeError", emitted |-> <<>>]
    ELSE IF ~IsHitachi(r[3]) THEN [exc |-> "", emitted |-> <<>>]
    ELSE [exc |-> "",
          emitted |-> <<("Post Date" :> convert_date_to_d_mm_yyyy(StripOrEmpty(r[1])))
                        @@ ("Value Date" :> convert_date_to_d_mm_yyyy(StripOrEmpty(r[2])))
                        @@ ("Description" :> StripOrEmpty(r[3]))
                        @@ ("Debit" :> StripOrEmpty(r[4]))
                        @@ ("Credit" :> StripOrEmpty(r[5]))
                        @@ ("Balance" :> StripOrEmpty(r[6]))>>]

StrategyRow(strategy, r) ==
    IF strategy = "central_bank_of_india_parser" THEN CentralRow(r)
    ELSE IF strategy = "city_union_bank_parser" THEN CityRow(r)
    ELSE GraminRow(r)

\* the loops of a strategy over the pages and over table[1:], on the data rows
\* of the document in order: the transactions, or the first exception raised
RECURSIVE StrategyTransactions(_, _)
StrategyTransactions(strategy, rows) ==
    IF rows = <<>> THEN Returned(<<>>)
    ELSE LET first == StrategyRow(strategy, Head(rows))
             rest == StrategyTransactions(strategy, Tail(rows))
         IN  IF first.exc # "" THEN Raised(first.exc)
             ELSE IF rest.exc # "" THEN Raised(rest.exc)
             ELSE Returned(first.emitted \o rest.value)

\* data rows of statements: in the six columns of City Union Bank (date,
\* description, cheque, debit, credit, balance) and in the eight of Central Bank
\* of India (post date, value date, branch, cheque, description, debit, credit,
\* balance); a blank cell comes as None
CR_Hitachi == <<D_Slash, T_Hitachi, None, A_500, EmptyStr, A_1200>>

CR_Service == <<D_Slash, T_Service, None, A_500, EmptyStr, A_1200>>

CR_IsoDate == <<D_Iso, T_Hitachi, None, A_500, EmptyStr, A_1200>>

CR_NoDescription == <<D_Slash, None, None, A_500, EmptyStr, A_1200>>

NR_Hitachi == <<D_ShortYear, D_MonthName, B_001, None, T_Hitachi, A_500, None, A_1200>>

NR_NoPostDate == <<None, D_MonthNameLong, B_001, None, T_Hitachi, A_500>>

\* the data rows of the documents handed to the strategies
StrategyTables ==
    {<<>>, <<CR_Service, CR_Hitachi>>, <<CR_Hitachi, CR_IsoDate>>, <<CR_NoDescription>>,
     <<NR_Hitachi, NR_NoPostDate>>}

\* what a bank strategy returns when its row loop has given the transactions:
\* the data dict, filled from the first page, is handed to generate_response
RunStrategy(strategy, found, txns) ==
    generate_response([Bank_Name |-> BankNameOf(strategy),
                       Branch_Name |-> found.Branch_Name,
                       Account_Holder |-> found.Account_Holder,
                       Account_Number |-> found.Account_Number,
                       IFSC_Code |-> found.IFSC_Code,
                       Cleared_Balance |-> found.Cleared_Balance],
                      txns)

\* position of the key in the dict items, 0 when absent
PositionOf(items, key) ==
    IF \E i \in 1..Len(items) : items[i].bank_name = key
    THEN CHOOSE i \in 1..Len(items) : items[i].bank_name = key
    ELSE 0

\* register_parser: self.parsers[bank_name.lower()] = parser_function; a key
\* already in the dict keeps its place and takes the new function
register_parser(items, bank_name, parser_function) ==
    LET key == Lower(bank_name)
        at == PositionOf(items, key)
    IN  IF at = 0
        THEN Append(items, [bank_name |-> key, parser_function |-> parser_function])
        ELSE [items EXCEPT ![at].parser_function = parser_function]

\* register_default_parsers
register_default_parsers(items) ==
    register_parser(
        register_parser(
            register_parser(items, N_Central, "central_bank_of_india_parser"),
            N_City, "city_union_bank_parser"),
        N_Gramin, "chhattisgarh_rajya_gramin_bank_parser")

\* bank_name.lower() in first_page_text.lower()
NameInText(bank_name, text) == Contains(Lower(text), Lower(bank_name))

\* mutant of MatchingItem: the last matching item is taken
LastMatchingItem(items, text) ==
    IF \E i \in 1..Len(items) : NameInText(items[i].bank_name, text)
    THEN CHOOSE i \in 1..Len(items) :
            /\ NameInText(items[i].bank_name, text)
            /\ \A j \in (i + 1)..Len(items) : ~NameInText(items[j].bank_name, text)
    ELSE 0

\* the loop of parse over self.parsers.items(): position of the first item whose
\* name occurs in the text, 0 when the loop ends without a match
MatchingItem(items, text) ==
    IF \E i \in 1..Len(items) : NameInText(items[i].bank_name, text)
    THEN CHOOSE i \in 1..Len(items) :
            /\ NameInText(items[i].bank_name, text)
            /\ \A j \in 1..(i - 1) : ~NameInText(items[j].bank_name, text)
    ELSE 0

NoResponse == [Response_Code |-> "", Remarks |-> [text |-> "", fields |-> <<>>]]

\* parser_function(pdf_path): the strategy runs its row loop and returns its
\* response, or ends with the exception a row raised
CallStrategy(strategy, found, rows) ==
    LET txns == StrategyTransactions(strategy, rows)
    IN  IF txns.exc # ""
        THEN [invoked |-> strategy, raised |-> txns.exc, value |-> NoResponse]
        ELSE [invoked |-> strategy, raised |-> "", value |-> RunStrategy(strategy, found, txns.value)]

\* mutant of BankParser_parse: an unrecognized bank gives an empty response
\* instead of ValueError
BankParser_parse_NoRaise(items, text, found, rows) ==
    IF text = NotAPdf THEN [invoked |-> "", raised |-> "PDFSyntaxError", value |-> NoResponse]
    ELSE IF text = None THEN [invoked |-> "", raised |-> "AttributeError", value |-> NoResponse]
    ELSE LET at == MatchingItem(items, text)
         IN  IF at = 0
             THEN [invoked |-> "", raised |-> "",
                   value |-> [Response_Code |-> "00",
                              Remarks |-> [text |-> "All fields extracted successfully", fields |-> <<>>]]]
             ELSE CallStrategy(items[at].parser_function, found, rows)

\* BankParser.parse(pdf_path): the strategy called, the exception raised and the
\* value returned. A file that is no PDF makes pdfplumber.open raise; a first page
\* without text gives None, on which .lower() raises AttributeError; an
\* unrecognized bank raises ValueError; what the strategy raises passes through.
BankParser_parse(items, text, found, rows) ==
    IF text = NotAPdf THEN [invoked |-> "", raised |-> "PDFSyntaxError", value |-> NoResponse]
    ELSE IF text = None THEN [invoked |-> "", raised |-> "AttributeError", value |-> NoResponse]
    ELSE LET at == MatchingItem(items, text)
         IN  IF at = 0
             THEN [invoked |-> "", raised |-> "ValueError", value |-> NoResponse]
             ELSE CallStrategy(items[at].parser_function, found, rows)

\* file_name.lower().endswith('.pdf')
EndsWithPdf(name) ==
    /\ Len(name) >= Len(EXT_PDF)
    /\ SubSeq(Lower(name), Len(name) - Len(EXT_PDF) + 1, Len(name)) = EXT_PDF

\* names and strategies registered by callers, texts of first pages, and
\* directory entries
RegisteredNames == {N_Central, N_City, N_CityUpper}

RegisteredStrategies == {"central_bank_of_india_parser", "city_union_bank_parser"}

FirstPageOfFile == {X_CityChennai, X_Both, X_Other, None, NotAPdf}

DirectoryEntries == {F_a, F_B, F_notes}

\* the PDF files of the input folder: what the first page of each gives (one of
\* FirstPageOfFile), what the patterns of a strategy find on it (one of
\* PatternResults), and the data rows of its tables (one of StrategyTables)
Documents ==
    {[text |-> NotAPdf, found |-> FoundAll, rows |-> <<>>],
     [text |-> None, found |-> FoundAll, rows |-> <<>>],
     [text |-> X_Other, found |-> FoundAll, rows |-> <<CR_Service, CR_Hitachi>>],
     [text |-> X_CityChennai, found |-> FoundAll, rows |-> <<>>],
     [text |-> X_CityChennai, found |-> FoundNoNumbers, rows |-> <<CR_Service, CR_Hitachi>>],
     [text |-> X_CityChennai, found |-> FoundAll, rows |-> <<CR_NoDescription>>],
     [text |-> X_Both, found |-> FoundAll, rows |-> <<CR_Hitachi, CR_IsoDate>>],
     [text |-> X_Both, found |-> FoundNoNumbers, rows |-> <<NR_Hitachi, NR_NoPostDate>>]}

InitRegistry ==
    /\ pc = "register"
    /\ AmountIdle
    /\ EntitiesIdle
    /\ parsers = <<>>
    /\ reg_log = <<>>
    /\ listed = {}
    /\ file_name = EmptyStr
    /\ first_page_text = EmptyStr
    /\ invoked = ""
    /\ parsed_data = NoResponse
    /\ raised = ""
    /\ json_files = {}
    /\ success_folder = {}
    /\ GenericIdle

\* a call of register_parser
RegisterParser ==
    /\ pc = "register"
    /\ Len(reg_log) < MaxRegistrations
    /\ \E bank_name \in RegisteredNames, parser_function \in RegisteredStrategies :
        /\ parsers' = register_parser(parsers, bank_name, parser_function)
        /\ reg_log' = Append(reg_log, [bank_name |-> bank_name, parser_function |-> parser_function])
    /\ UNCHANGED <<pc, avars, evars, hvars, gvars, listed, file_name, first_page_text, invoked, parsed_data,
                   raised, json_files, success_folder>>

\* main: a new BankParser takes the default registrations, then the loop starts
RegisterDefaultParsers ==
    /\ pc = "register"
    /\ parsers = <<>>
    /\ parsers' = register_default_parsers(parsers)
    /\ reg_log' = <<[bank_name |-> N_Central, parser_function |-> "central_bank_of_india_parser"],
                    [bank_name |-> N_City, parser_function |-> "city_union_bank_parser"],
                    [bank_name |-> N_Gramin, parser_function |-> "chhattisgarh_rajya_gramin_bank_parser"]>>
    /\ pc' = "files"
    /\ UNCHANGED <<avars, evars, hvars, gvars, listed, file_name, first_page_text, invoked, parsed_data,
                   raised, json_files, success_folder>>

\* the registrations are over; the loop over the input folder starts
StartFiles ==
    /\ pc = "register"
    /\ pc' = "files"
    /\ UNCHANGED <<avars, evars, hvars, gvars, rvars>>

\* one iteration of the loop of main: an entry that is no PDF is passed over; a
\* PDF is parsed, and then its JSON is written and the file moved to the success
\* folder, unless parse raised; ValueError is caught, anything else ends main
HandleFile ==
    /\ pc = "files"
    /\ Cardinality(listed) < MaxFiles
    /\ \E name \in DirectoryEntries \ listed, doc \in Documents :
        /\ file_name' = name
        /\ listed' = listed \cup {name}
        /\ IF ~EndsWithPdf(name)
           THEN UNCHANGED <<pc, first_page_text, invoked, parsed_data, raised, json_files, success_folder>>
           ELSE LET result == BankParser_parse(parsers, doc.text, doc.found, doc.rows)
                IN  /\ first_page_text' = doc.text
                    /\ invoked' = result.invoked
                    /\ raised' = result.raised
                    /\ parsed_data' = result.value
                    /\ IF result.raised = ""
                       THEN /\ json_files' = json_files \cup {name}
                            /\ success_folder' = success_folder \cup {name}
                            /\ UNCHANGED pc
                       ELSE /\ UNCHANGED <<json_files, success_folder>>
                            /\ pc' = IF result.raised = "ValueError" THEN "files" ELSE "crashed"
    /\ UNCHANGED <<avars, evars, hvars, gvars, parsers, reg_log>>

NextRegistry ==
    \/ RegisterParser
    \/ RegisterDefaultParsers
    \/ StartFiles
    \/ HandleFile

SpecRegistry == InitRegistry /\ [][NextRegistry]_vars

\* process_pdf and the registry side by side: the two response assemblers
InitResponse == (InitGeneric /\ RegistryIdle) \/ InitRegistry

NextResponse == NextGeneric \/ NextRegistry

SpecResponse == InitResponse /\ [][NextResponse]_vars

-----------------------------------------------------------------------------
(* Specification of map_headers on its own: any header row, one call *)

HeaderRows == SeqsUpTo(HeaderCells, MaxCols)

InitHeaders ==
    /\ pc = "call"
    /\ AmountIdle
    /\ EntitiesIdle
    /\ headers \in HeaderRows
    /\ mapped_headers = EmptyDict
    /\ data = InitialData
    /\ all_transactions = <<>>
    /\ page_num = 0
    /\ pages_left = 0
    /\ tables_left = 0
    /\ rows_left = 0
    /\ row = <<>>
    /\ transactions = <<>>
    /\ exc = ""
    /\ doc_tables = 0
    /\ doc_rows = 0
    /\ table_outcome = ""
    /\ rejected_at = -1
    /\ RegistryIdle

CallMapHeaders ==
    /\ pc = "call"
    /\ mapped_headers' = map_headers(headers)
    /\ pc' = "returned"
    /\ UNCHANGED <<headers, gvars, rvars, avars, evars>>

NextHeaders == CallMapHeaders

SpecHeaders == InitHeaders /\ [][NextHeaders]_vars

-----------------------------------------------------------------------------
(* Specification of parse_amount on its own: any cell text over a small      *)
(* alphabet, one call, and then extract_transactions on a row whose debit    *)
(* cell holds that text and whose credit cell is empty                       *)

AmountChars == {"0", "7", ".", ",", " ", "R"}

AmountStrings == SeqsUpTo(AmountChars, MaxAmountLen)

\* the row of a mapped five-column table with the given debit cell
DebitRow(cell) == <<D_Slash, T_Service, cell, EmptyStr, A_100>>

InitAmounts ==
    /\ pc = "amount"
    /\ amount_str \in AmountStrings
    /\ cleaned = <<>>
    /\ EntitiesIdle
    /\ GenericIdle
    /\ RegistryIdle

CallParseAmount ==
    /\ pc = "amount"
    /\ cleaned' = parse_amount(amount_str)
    /\ pc' = "cleaned"
    /\ UNCHANGED <<amount_str, hvars, gvars, rvars, evars>>

CallExtractTransactions ==
    /\ pc = "cleaned"
    /\ LET result == extract_transactions(<<DebitRow(amount_str)>>, map_headers(Scenario1Headers))
       IN  /\ row' = DebitRow(amount_str)
           /\ transactions' = result.value
           /\ exc' = result.exc
    /\ pc' = "extracted"
    /\ UNCHANGED <<avars, evars, hvars, rvars, data, all_transactions, page_num, pages_left, tables_left,
                   rows_left, doc_tables, doc_rows, table_outcome, rejected_at>>

NextAmounts == CallParseAmount \/ CallExtractTransactions

SpecAmounts == InitAmounts /\ [][NextAmounts]_vars

-----------------------------------------------------------------------------
(* Specification of extract_metadata on its own: any sequence of recognized  *)
(* entities in a text that holds nothing else, one call                      *)

Entities ==
    {[label_ |-> "ORG", text |-> E_StateBank], [label_ |-> "ORG", text |-> E_Traders],
     [label_ |-> "PERSON", text |-> E_Kumar], [label_ |-> "CARDINAL", text |-> E_Account],
     [label_ |-> "GPE", text |-> V_Chennai]}

EntitySequences == SeqsUpTo(Entities, MaxEntities)

InitEntities ==
    /\ pc = "entities"
    /\ doc_ents \in EntitySequences
    /\ extracted_metadata = EmptyDict
    /\ AmountIdle
    /\ GenericIdle
    /\ RegistryIdle

CallExtractMetadata ==
    /\ pc = "entities"
    /\ extracted_metadata' = extract_metadata([P_Empty EXCEPT !.ents = doc_ents])
    /\ pc' = "metadata"
    /\ UNCHANGED <<doc_ents, avars, hvars, gvars, rvars>>

NextEntities == CallExtractMetadata

SpecEntities == InitEntities /\ [][NextEntities]_vars

-----------------------------------------------------------------------------
(* Properties of map_headers *)

\* syn occurs in cell, letter case ignored
OccursIgnoringCase(cell, syn) ==
    \E i \in 0..(Len(cell) - Len(syn)) :
        \A j \in 1..Len(syn) : LowerChar(cell[i + j]) = LowerChar(syn[j])

FieldMatchesCell(key, cell) ==
    \E j \in 1..Len(HEADER_SYNONYMS[key]) : OccursIgnoringCase(cell, HEADER_SYNONYMS[key][j])

\* the canonical field of a cell: the first field, in the order date, description,
\* debit, credit, balance, that matches it; "" when no field matches
FieldOfCell(cell) ==
    IF \E n \in 1..Len(FieldOrder) : FieldMatchesCell(FieldOrder[n], cell)
    THEN FieldOrder[CHOOSE n \in 1..Len(FieldOrder) :
            /\ FieldMatchesCell(FieldOrder[n], cell)
            /\ \A m \in 1..(n - 1) : ~FieldMatchesCell(FieldOrder[m], cell)]
    ELSE ""

\* zero-based positions of the cells of a header row whose field is key
\* FieldOfCell over the header cells of the model
FieldOfHeaderCell == [cell \in HeaderCells |-> FieldOfCell(cell)]

CellsOfField(hdrs, key) == {i \in 0..(Len(hdrs) - 1) : FieldOfHeaderCell[hdrs[i + 1]] = key}

MinOf(S) == CHOOSE x \in S : \A y \in S : x <= y

MaxOf(S) == CHOOSE x \in S : \A y \in S : x >= y

Scenario1Mapping == [date |-> 0, description |-> 1, debit |-> 2, credit |-> 3, balance |-> 4]

\* C1: when several header cells match the same canonical field, the mapping of
\* that field is the index of the first (leftmost) of them; later matching cells
\* never replace it.
C1_FirstMatchingCellKept ==
    pc = "returned" =>
        \A key \in DOMAIN mapped_headers :
            mapped_headers[key] = MinOf(CellsOfField(headers, key))

\* what map_headers does instead: the last (rightmost) matching cell is kept
C1_LastMatchingCellKept ==
    pc = "returned" =>
        \A key \in DOMAIN mapped_headers :
            mapped_headers[key] = MaxOf(CellsOfField(headers, key))

\* a header row in which two cells match the same field has been mapped
C1_DuplicateFieldMapped ==
    /\ pc = "returned"
    /\ \E key \in DOMAIN mapped_headers : Cardinality(CellsOfField(headers, key)) >= 2

\* C2: map_headers assigns each header cell to at most one canonical field, the
\* first field in the order date, description, debit, credit, balance with a
\* synonym occurring case-insensitively in the cell; every index in the mapping is
\* the position of a cell of that field, every field some cell matches is mapped,
\* a cell matching no synonym contributes no entry, and the row Txn Date,
\* Particulars, Withdrawal, Deposit, Balance maps to 0, 1, 2, 3, 4.
C2_CellsMappedToFirstMatchingField ==
    pc = "returned" =>
        /\ \A key \in DOMAIN mapped_headers : mapped_headers[key] \in CellsOfField(headers, key)
        /\ DOMAIN mapped_headers = {FieldOrder[n] : n \in {m \in 1..Len(FieldOrder) : CellsOfField(headers, FieldOrder[m]) # {}}}
        /\ \A k1, k2 \in DOMAIN mapped_headers : k1 # k2 => mapped_headers[k1] # mapped_headers[k2]
        /\ \A i \in 0..(Len(headers) - 1) :
              FieldOfHeaderCell[headers[i + 1]] = "" => \A key \in DOMAIN mapped_headers : mapped_headers[key] # i
        /\ headers = Scenario1Headers => mapped_headers = Scenario1Mapping

\* a row with a cell of two fields (Dr/Cr), a cell of none (Cheque No) and cells
\* written in mixed case has been mapped
C2_MixedRowMapped ==
    /\ pc = "returned"
    /\ headers = <<H_TxnDate, H_ChequeNo, H_DrCr, H_Deposit>>
    /\ mapped_headers = [date |-> 0, debit |-> 2, credit |-> 3]

-----------------------------------------------------------------------------
(* Properties of process_pdf *)

\* the transactions process_pdf returns
ReturnedTransactions == data.Data.bankStatementTransactions

\* DD-MM-YYYY with a day and a month that exist
IsCanonicalDate(d) ==
    /\ Len(d) = 10
    /\ d[3] = "-" /\ d[6] = "-"
    /\ \A i \in {1, 2, 4, 5, 7, 8, 9, 10} : IsDigit(d[i])
    /\ NumberOf(SubSeq(d, 4, 5)) \in 1..12
    /\ NumberOf(SubSeq(d, 1, 2)) \in 1..31

\* the cells of the data rows that parse as a date, normalized
NormalizedDateCells ==
    UNION {{parse_date(Strip(r[i])) : i \in {j \in 1..Len(r) : r[j] # None}} : r \in DataRows} \ {None}

Scenario2Transaction ==
    [DATE |-> D_Canonical, DESCRIPTION |-> T_Hitachi, DEBIT |-> A_500, CREDIT |-> EmptyStr,
     BALANCE |-> A_1200]

CreditTransaction ==
    [DATE |-> D_Thirteenth, DESCRIPTION |-> T_Neft, DEBIT |-> EmptyStr, CREDIT |-> A_1000,
     BALANCE |-> A_2200]

ValidTransaction(t) ==
    /\ IsCanonicalDate(t.DATE)
    /\ t.DATE \in NormalizedDateCells
    /\ t.DEBIT # EmptyStr \/ t.CREDIT # EmptyStr

\* C3: every transaction extracted and every transaction returned by process_pdf
\* has a DATE in DD-MM-YYYY form that is the normalized form of a date cell, and a
\* non-empty DEBIT or CREDIT; rows with an unparseable date or with neither debit
\* nor credit are not emitted.
C3_EmittedTransactionsValid ==
    /\ \A i \in 1..Len(all_transactions) : ValidTransaction(all_transactions[i])
    /\ \A i \in 1..Len(ReturnedTransactions) : ValidTransaction(ReturnedTransactions[i])
    /\ \A i \in 1..Len(transactions) : ValidTransaction(transactions[i])

\* the rows of Scenario 2, of a row without movement and of Scenario 3 (no date)
\* went through, and only the transaction of Scenario 2 is returned
C3_OnlyValidRowReturned ==
    /\ pc = "done"
    /\ data.ResponseCode = "00"
    /\ doc_rows = 3
    /\ row = R_Scenario3
    /\ all_transactions = <<Scenario2Transaction>>
    /\ ReturnedTransactions = <<Scenario2Transaction>>

\* position of the first transaction of txns with the key of t
FirstIndexOf(t, txns) ==
    MinOf({i \in 1..Len(txns) : KeyOf(txns[i]) = KeyOf(t)})

SentinelOf(field) == IF field = "BankName" THEN UNKNOWN_BANK ELSE NA

\* what the first-page texts of the model hold for the field
DetectableValues(field) ==
    IF field \in {"BankName", "AccountHolder", "AccountNumber"}
    THEN UNION {{t.ents[i].text : i \in 1..Len(t.ents)} : t \in FirstPageTexts}
    ELSE IF field = "IFSCCode" THEN {t.ifsc : t \in FirstPageTexts} \ {None}
    ELSE IF field = "ClearedBalance" THEN {t.balances[i] : t \in FirstPageTexts, i \in 1..3} \ {None}
    ELSE {D_Apr01, D_Apr30}

\* C8: in every result process_pdf returns, each of the seven metadata fields is
\* present and holds a detected value or its sentinel ("Unknown Bank" for
\* BankName, "NA" for the others), never None; also when metadata extraction
\* failed, when the first page has no text, and when processing ended in error.
C8_MetadataAlwaysPopulated ==
    pc = "done" =>
        /\ DOMAIN data.Data = MetadataFields \cup {"bankStatementTransactions"}
        /\ \A field \in MetadataFields :
              /\ data.Data[field] # None
              /\ data.Data[field] = SentinelOf(field) \/ data.Data[field] \in DetectableValues(field)

\* processing ended in error after a first page with a bank name and a period
\* label whose date does not exist: detected values and sentinels side by side
C8_ErrorResultPopulated ==
    /\ pc = "done"
    /\ data.ResponseCode = "99"
    /\ data.Data.BankName = E_StateBank
    /\ data.Data.AccountHolder = E_Kumar
    /\ data.Data.TransactionFrom = NA
    /\ data.Data.IFSCCode = NA

\* some required field has no column in the mapping
IncompleteMapping(mapped) ==
    \E field \in {"date", "description", "debit", "credit", "balance"} : field \notin DOMAIN mapped

\* a step that takes a table with data rows and maps its header row
TableMapped ==
    /\ pc = "tables"
    /\ tables_left' = tables_left - 1
    /\ table_outcome' \in {"rejected", "mapped"}

\* C9: a table whose header mapping lacks a required field contributes no
\* transaction (its rows are not visited), and rejecting it is not fatal: nothing
\* is raised, the response is untouched and the table loop goes on.
C9_IncompleteTableRejected ==
    [][(TableMapped /\ IncompleteMapping(mapped_headers')) =>
          /\ all_transactions' = all_transactions
          /\ pc' \in {"tables", "pages"}
          /\ exc' = ""
          /\ data' = data]_vars

\* a table was rejected and a table after it gave a transaction that is returned
C9_TableAfterRejectedExtracted ==
    /\ pc = "done"
    /\ data.ResponseCode = "00"
    /\ rejected_at = 0
    /\ table_outcome = "mapped"
    /\ ReturnedTransactions = <<Scenario2Transaction>>

\* the number of cells of the row does not reach the highest mapped column
RowEndsBeforeLastColumn(r, mapped) ==
    \E field \in DOMAIN mapped : mapped[field] > Len(r) - 1

\* a step that hands the next data row to extract_transactions
RowVisited == pc = "rows" /\ rows_left' = rows_left - 1

\* C10: a data row whose cells do not reach the highest mapped column gives no
\* transaction and is not fatal (the row loop goes on); no row is ever read at a
\* column beyond its length.
C10_ShortRowSkipped ==
    [][RowVisited =>
          /\ exc' # "IndexError"
          /\ RowEndsBeforeLastColumn(row', mapped_headers) =>
                /\ all_transactions' = all_transactions
                /\ transactions' = <<>>
                /\ exc' = ""
                /\ pc' # "done"
                /\ data' = data]_vars

\* the first row of a table was too short, nothing was extracted from it and the
\* next row of the table is up
C10_ShortRowPassedOver ==
    /\ pc = "rows"
    /\ row = R_Short
    /\ headers = Scenario1Headers
    /\ doc_rows - rows_left = 1
    /\ rows_left >= 1
    /\ all_transactions = <<>>
    /\ exc = ""

-----------------------------------------------------------------------------
(* Properties of the registry and of the response codes *)

\* parse has been called on the directory entry last visited
FileParsed == EndsWithPdf(file_name) /\ first_page_text # EmptyStr

\* the file was opened and its first page gave a text
FirstPageHasText == first_page_text \notin {None, NotAPdf}

\* the register_parser calls whose name occurs in the text, letter case ignored
MatchingRegistrations(text) ==
    {i \in 1..Len(reg_log) : OccursIgnoringCase(text, reg_log[i].bank_name)}

\* the register_parser calls made under the same name, letter case ignored
SameName(i) ==
    {j \in 1..Len(reg_log) : Lower(reg_log[j].bank_name) = Lower(reg_log[i].bank_name)}

\* C5: parse dispatches to the strategy of the earliest-registered bank name that
\* occurs, letter case ignored, in the first page's text (the strategy last
\* registered under that name); a name registered later is never chosen over it;
\* with Central Bank of India and City Union Bank registered in this order, the
\* text "City Union Bank Branch: Chennai" goes to the City Union Bank strategy.
C5_EarliestRegisteredNameDispatched ==
    (FileParsed /\ FirstPageHasText) =>
        /\ invoked # "" <=> MatchingRegistrations(first_page_text) # {}
        /\ invoked # "" =>
              invoked = reg_log[MaxOf(SameName(MinOf(MatchingRegistrations(first_page_text))))].parser_function
        /\ ( /\ first_page_text = X_CityChennai
             /\ reg_log = <<[bank_name |-> N_Central, parser_function |-> "central_bank_of_india_parser"],
                            [bank_name |-> N_City, parser_function |-> "city_union_bank_parser"]>> )
              => invoked = "city_union_bank_parser"

\* two registered names occur in the text; the strategy of the one registered
\* first was called
C5_TwoNamesMatchFirstWins ==
    /\ FileParsed
    /\ first_page_text = X_Both
    /\ reg_log = <<[bank_name |-> N_City, parser_function |-> "city_union_bank_parser"],
                   [bank_name |-> N_Central, parser_function |-> "central_bank_of_india_parser"]>>
    /\ invoked = "city_union_bank_parser"

\* C6: when no registered bank name occurs in the first page's text, parse calls
\* no strategy and ends with the "bank not recognized" ValueError; main writes no
\* JSON for the file, does not move it to the success folder, and goes on.
C6_UnrecognizedBankFails ==
    (FileParsed /\ FirstPageHasText /\ MatchingRegistrations(first_page_text) = {}) =>
        /\ invoked = ""
        /\ raised = "ValueError"
        /\ file_name \notin json_files
        /\ file_name \notin success_folder
        /\ pc = "files"

\* with the default registrations, a first file was parsed and moved, and a
\* second one, of no registered bank, failed and left no JSON
C6_SecondFileUnrecognized ==
    /\ pc = "files"
    /\ Len(reg_log) = 3
    /\ file_name = F_B
    /\ first_page_text = X_Other
    /\ raised = "ValueError"
    /\ json_files = {F_a}
    /\ success_folder = {F_a}

\* the fields of the response of a strategy that hold None
MissingMetadata == {DataKeys[n] : n \in {m \in 1..Len(DataKeys) : parsed_data.Data[DataKeys[m]] = None}}

\* the registry variant: success exactly when no metadata field is missing, and
\* otherwise code "01" with a remark naming exactly the missing fields
RegistryResponseRule ==
    parsed_data.Response_Code # "" =>
        /\ parsed_data.Response_Code = "00" <=> MissingMetadata = {}
        /\ MissingMetadata = {} => parsed_data.Remarks.text = "All fields extracted successfully"
        /\ MissingMetadata # {} =>
              /\ parsed_data.Response_Code = "01"
              /\ parsed_data.Remarks.text = "Missed fields: "
              /\ {parsed_data.Remarks.fields[n] : n \in 1..Len(parsed_data.Remarks.fields)} = MissingMetadata
              /\ Len(parsed_data.Remarks.fields) = Cardinality(MissingMetadata)

\* C7: the code is "00" only when the deciding signal holds (registry: no
\* metadata field missing; generic: a transaction remains after deduplication);
\* otherwise the code is not "00" and the remark names exactly the missing fields
\* (registry) or says that no valid transactions were found (generic).
C7_NonSuccessNamesCause ==
    /\ RegistryResponseRule
    /\ pc = "done" =>
          /\ data.ResponseCode = "00" => Len(ReturnedTransactions) >= 1
          /\ data.ResponseCode # "00" => data.ResponseMessage = "No valid transactions found."

\* C7 as amended: in the generic variant the remark says that no valid
\* transactions were found only when processing went through and none remained
\* (code "01"); when processing raised, the code is "99" and the remark says that
\* an error occurred.
C7_NonSuccessNamesCauseOrError ==
    /\ RegistryResponseRule
    /\ pc = "done" =>
          /\ data.ResponseCode = "00" <=> (exc = "" /\ Len(ReturnedTransactions) >= 1)
          /\ data.ResponseCode = "00" => data.ResponseMessage = "All fields extracted successfully"
          /\ (exc = "" /\ ReturnedTransactions = <<>>) =>
                /\ data.ResponseCode = "01"
                /\ data.ResponseMessage = "No valid transactions found."
          /\ exc # "" =>
                /\ data.ResponseCode = "99"
                /\ data.ResponseMessage = "An error occurred during processing."
                /\ ReturnedTransactions = <<>>

\* a row raised after a transaction had been extracted: code "99", the error
\* remark, and no transaction returned
C7_ErrorAfterExtraction ==
    /\ pc = "done"
    /\ exc = "AttributeError"
    /\ row = R_NoneCell
    /\ all_transactions = <<Scenario2Transaction>>
    /\ data.ResponseCode = "99"
    /\ data.ResponseMessage = "An error occurred during processing."

\* process_pdf has returned, with one of its three codes
ProcessPdfReturned == pc = "done" => data.ResponseCode \in {"00", "01", "99"}

\* C11: a failure of a collaborator while a document is processed (a file that is
\* no readable PDF, a page without text, a failing table extraction) is caught
\* and surfaced as a result: process_pdf always returns one of the codes "00",
\* "01", "99", and the loop of main never ends abnormally because of one file,
\* going on with the remaining ones.
C11_FailuresSurfaced ==
    /\ ProcessPdfReturned
    /\ raised \in {"", "ValueError"}
    /\ pc # "crashed"

-----------------------------------------------------------------------------
(* Properties of parse_amount *)

\* the positions of s that hold a digit, "." or ","
AmountPositions(s) == {i \in 1..Len(s) : s[i] \in {"0","1","2","3","4","5","6","7","8","9",".",","}}

\* s holds a digit somewhere: it is an amount
HoldsAmount(s) == \E i \in 1..Len(s) : s[i] \in {"0","1","2","3","4","5","6","7","8","9"}

\* t is s with every character other than digits, "." and "," removed
IsFilteredAmount(s, t) ==
    /\ Len(t) = Cardinality(AmountPositions(s))
    /\ \A i \in AmountPositions(s) : t[Cardinality({j \in AmountPositions(s) : j <= i})] = s[i]

\* C12: parse_amount returns its input with every character other than digits,
\* "." and "," removed; the result is empty for every input holding no digit and
\* non-empty for an amount, a zero amount included, so that extract_transactions
\* takes a debit cell (credit empty) for "no movement" exactly when the cell
\* holds no amount.
C12_EmptyExactlyWhenNoAmount ==
    /\ pc \in {"cleaned", "extracted"} =>
          /\ IsFilteredAmount(amount_str, cleaned)
          /\ (cleaned = EmptyStr) <=> ~HoldsAmount(amount_str)
    /\ pc = "extracted" =>
          /\ exc = ""
          /\ (transactions = <<>>) <=> ~HoldsAmount(amount_str)

\* what the code does: the result is the filtered input, which is empty only
\* when the input holds no digit, "." or ","; a row is "no movement" exactly then
ParseAmountFilters ==
    /\ pc \in {"cleaned", "extracted"} =>
          /\ IsFilteredAmount(amount_str, cleaned)
          /\ (cleaned = EmptyStr) <=> (AmountPositions(amount_str) = {})
    /\ pc = "extracted" =>
          /\ exc = ""
          /\ (transactions = <<>>) <=> (AmountPositions(amount_str) = {})

-----------------------------------------------------------------------------
(* Properties of the bank strategies *)

\* the transactions of the response parse returned for the file
StrategyTransactionsReturned ==
    IF parsed_data.Response_Code = "" THEN <<>> ELSE parsed_data.Transactions

\* the date fields of a transaction of a strategy
DateFields(t) == (DOMAIN t) \cap {"Date", "Post Date", "Value Date"}

\* C13: every date field of every transaction a bank strategy emits is in the
\* canonical form DD-MM-YYYY; a row whose date matches none of the formats is
\* discarded, never emitted with another text for its date.
C13_StrategyDatesCanonical ==
    \A i \in 1..Len(StrategyTransactionsReturned) :
        \A k \in DateFields(StrategyTransactionsReturned[i]) :
            IsCanonicalDate(StrategyTransactionsReturned[i][k])

\* what the code does: a date field is canonical, or the stripped cell as it
\* stood when no format matches it
StrategyDatesCanonicalOrUnchanged ==
    \A i \in 1..Len(StrategyTransactionsReturned) :
        \A k \in DateFields(StrategyTransactionsReturned[i]) :
            \/ IsCanonicalDate(StrategyTransactionsReturned[i][k])
            \/ StrategyTransactionsReturned[i][k] \in {EmptyStr, D_Iso}

-----------------------------------------------------------------------------
(* Properties of extract_metadata *)

\* the positions of the organization entities, and of the person or
\* organization entities
Organizations == {i \in 1..Len(doc_ents) : doc_ents[i].label_ = "ORG"}

PersonsOrOrganizations == {i \in 1..Len(doc_ents) : doc_ents[i].label_ \in {"PERSON", "ORG"}}

\* the person or organization entities that are not the bank: neither the entity
\* that gave BankName nor one of the same name
DistinctFromBank ==
    {i \in PersonsOrOrganizations : i # MinOf(Organizations) /\ doc_ents[i].text # extracted_metadata.BankName}

\* C14: BankName is the first organization entity, and AccountHolder the first
\* person or organization entity distinct from the bank; when both are
\* detected, AccountHolder is never the name BankName holds.
C14_HolderDistinctFromBank ==
    pc = "metadata" =>
        /\ extracted_metadata.BankName =
              IF Organizations = {} THEN UNKNOWN_BANK ELSE doc_ents[MinOf(Organizations)].text
        /\ Organizations # {} =>
              extracted_metadata.AccountHolder =
                  IF DistinctFromBank = {} THEN NA ELSE doc_ents[MinOf(DistinctFromBank)].text
        /\ (extracted_metadata.BankName # UNKNOWN_BANK /\ extracted_metadata.AccountHolder # NA) =>
              extracted_metadata.AccountHolder # extracted_metadata.BankName

\* what the code does: AccountHolder is the first person or organization entity
\* other than the entity that gave BankName, whatever its name
HolderIsFirstOtherEntity ==
    pc = "metadata" =>
        /\ extracted_metadata.BankName =
              IF Organizations = {} THEN UNKNOWN_BANK ELSE doc_ents[MinOf(Organizations)].text
        /\ extracted_metadata.AccountHolder =
              IF PersonsOrOrganizations \ {MinOf(Organizations \cup {Len(doc_ents) + 1})} = {} THEN NA
              ELSE doc_ents[MinOf(PersonsOrOrganizations \ {MinOf(Organizations \cup {Len(doc_ents) + 1})})].text

====
